---- MODULE Spec2Model ----
(***************************************************************************)
(* The notebook exercises/2_recurrent_neural_networks.ipynb as a state     *)
(* machine: the state is the kernel's namespace and the values of the data *)
(* names, one action per code cell.  The library calls the cells make are  *)
(* operators that compute what the keras functions compute with the        *)
(* arguments the notebook passes (all other arguments at their defaults).  *)
(*                                                                         *)
(* Sizes.  NUM_WORDS (20000 in the notebook) and MAXLEN (80) are scaled to *)
(* 6 and 3 so that the reviews and the dictionaries can be enumerated; the *)
(* corpus is NumTrain + NumTest reviews over a vocabulary of VocabSize     *)
(* words.  INDEX_FROM, I_SHOW, the row and slice indices and the library's *)
(* defaults keep their values.                                             *)
(***************************************************************************)
EXTENDS Integers, Sequences, FiniteSets, TLC

\* ---------------------------------------------------------------- bounds
VocabSize == 7      \* words in the library's word index
NumTrain == 5       \* reviews in the training split
NumTest == 2        \* reviews in the test split

\* ------------------------------------------------------ program constants
NUM_WORDS == 6      \* NUM_WORDS = 20000, scaled
INDEX_FROM == 3     \* INDEX_FROM = 3
I_SHOW == 4         \* I_SHOW = 4
MAXLEN == 3         \* MAXLEN = 80, scaled
PEEK == 3           \* x_train[:3]
SHOW_ROW == 3       \* X_train[3, :]
\* defaults of imdb.load_data and sequence.pad_sequences
start_char == 1
oov_char == 2
index_from == 3
skip_top == 0
pad_value == 0

VARIABLES
    imdb,           \* the library's files: the review archive and the word index
    ns,             \* the kernel's namespace: name -> kind of the value bound
    x_train, y_train, x_test, y_test,
    word_index, word_to_index, index_to_word,
    X_train, X_test,
    lengths,
    out,            \* what the last executed cell displayed as its value
    lastCell,       \* the last executed cell
    err,            \* how it ended: "ok" or the exception raised
    pc,             \* the next cell of the first pass in document order
    strict,         \* every execution so far was the next cell in document order
    first           \* the data after the first complete pass

vars == <<imdb, ns, x_train, y_train, x_test, y_test, word_index, word_to_index,
          index_to_word, X_train, X_test, lengths, out, lastCell, err, pc,
          strict, first>>

\* ------------------------------------------------------------ the notebook
\* The code cells in document order.
NotebookOrder ==
    << "autoreload", "imports", "load", "peek", "wordindex", "decode", "pad",
       "plot", "show", "one_hot_encoding", "one_hot_document",
       "embedding_encoding", "embedding_document", "model",
       "baseline", "minimum", "visualize", "transfer" >>

NumCells == Len(NotebookOrder)

UtilsCells ==
    {"one_hot_encoding", "one_hot_document", "embedding_encoding", "embedding_document"}

EmptyCells == {"baseline", "minimum", "visualize", "transfer"}

bound == DOMAIN ns

Bind(space, names, kind) ==
    [n \in (DOMAIN space) \cup names |-> IF n \in names THEN kind ELSE space[n]]

\* ------------------------------------------------------ the library's data
AllWords == << "the", "and", "a", "of", "to", "is", "br", "in", "it", "i" >>

Words == {AllWords[i] : i \in 1..VocabSize}

\* The ranks the archive's reviews are written with: the most frequent word,
\* the last word load_data keeps, the first it replaces, and the rarest.
RankSample == {1, NUM_WORDS - index_from - 1, NUM_WORDS - index_from, VocabSize}

Seeds == [1..(NumTrain - 1) -> RankSample]

\* The archive built from one seed: the training reviews are its prefixes
\* (lengths 0..NumTrain-1), the test reviews its suffixes.
Archive(seed) ==
    [ x_train |-> [i \in 1..NumTrain |-> SubSeq(seed, 1, i - 1)],
      y_train |-> [i \in 1..NumTrain |-> i % 2],
      x_test  |-> [i \in 1..NumTest |-> SubSeq(seed, i, Len(seed))],
      y_test  |-> [i \in 1..NumTest |-> (i + 1) % 2] ]

\* The word index file: every word has one rank in 1..VocabSize.
WordIndexFile(r) ==
    [w \in Words |->
        (((CHOOSE i \in 1..VocabSize : AllWords[i] = w) - 1 + r) % VocabSize) + 1]

\* ------------------------------------------------------- the library calls
Min(a, b) == IF a < b THEN a ELSE b

\* imdb.load_data(num_words=...): every review gets start_char in front and
\* its ranks shifted by index_from; then every id outside
\* skip_top..num_words-1 is replaced by oov_char.  The labels are returned
\* as they are.
\* load_reviews with num_words ignored: no id is replaced by oov_char.
load_reviews_unfiltered(xs, num_words) ==
    [i \in 1..Len(xs) |->
        <<start_char>> \o [j \in 1..Len(xs[i]) |-> xs[i][j] + index_from]]

\* load_reviews with the ranks shifted by one less than index_from.
load_reviews_shifted_short(xs, num_words) ==
    LET shifted(x) == <<start_char>> \o [j \in 1..Len(x) |-> x[j] + index_from - 1]
        kept(x) == [j \in 1..Len(x) |->
                      IF skip_top <= x[j] /\ x[j] < num_words THEN x[j] ELSE oov_char]
    IN  [i \in 1..Len(xs) |-> kept(shifted(xs[i]))]

load_reviews(xs, num_words) ==
    LET shifted(x) == <<start_char>> \o [j \in 1..Len(x) |-> x[j] + index_from]
        kept(x) == [j \in 1..Len(x) |->
                      IF skip_top <= x[j] /\ x[j] < num_words THEN x[j] ELSE oov_char]
    IN  [i \in 1..Len(xs) |-> kept(shifted(xs[i]))]

load_data(archive, num_words) ==
    [ x_train |-> load_reviews(archive.x_train, num_words),
      y_train |-> archive.y_train,
      x_test  |-> load_reviews(archive.x_test, num_words),
      y_test  |-> archive.y_test ]

\* imdb.get_word_index(): the word index file, parsed anew at every call.
get_word_index(file) == file

\* sequence.pad_sequences(sequences, maxlen=...) with padding='pre',
\* truncating='pre', value=0: an array of len(sequences) rows of maxlen
\* entries, all pad_value; row idx then receives trunc, the last maxlen
\* entries of the sequence (truncating 'pre') or the first (truncating
\* 'post'), at its end (padding 'pre') or at its start (padding 'post').
padding == "pre"

truncating == "pre"

\* pad_row without the truncation: a long sequence keeps all its entries.
pad_row_untruncated(s, maxlen) ==
    LET gap == IF Len(s) < maxlen THEN maxlen - Len(s) ELSE 0
    IN  [j \in 1..(gap + Len(s)) |-> IF j <= gap THEN pad_value ELSE s[j - gap]]

pad_row(s, maxlen) ==
    LET trunc == IF Len(s) <= maxlen THEN s
                 ELSE IF truncating = "pre" THEN SubSeq(s, Len(s) - maxlen + 1, Len(s))
                 ELSE SubSeq(s, 1, maxlen)
        gap == maxlen - Len(trunc)
    IN  [j \in 1..maxlen |->
            IF padding = "pre"
            THEN (IF j <= gap THEN pad_value ELSE trunc[j - gap])
            ELSE (IF j <= Len(trunc) THEN trunc[j] ELSE pad_value)]

pad_sequences(sequences, maxlen) ==
    [idx \in 1..Len(sequences) |-> pad_row(sequences[idx], maxlen)]

\* The list handed to pad_sequences, after the call: pad_sequences fills a new
\* array and leaves its argument as it was.
\* pad_sequences cutting the lists it is handed, in place.
ArgAfterPad_cut(sequences, maxlen) ==
    [i \in 1..Len(sequences) |->
        SubSeq(sequences[i], 1, Min(maxlen, Len(sequences[i])))]

\* pad_sequences consuming the first entry of every list it is handed.
ArgAfterPad_popped(sequences, maxlen) ==
    [i \in 1..Len(sequences) |-> SubSeq(sequences[i], 2, Len(sequences[i]))]

ArgAfterPad(sequences, maxlen) == sequences

\* --------------------------------------------------- the word-index cell
Special == {"<PAD>", "<START>", "<UNK>"}

\* {k: (v + INDEX_FROM) for k, v in word_index.items()}
ShiftIndex_unshifted(wi) == [k \in DOMAIN wi |-> wi[k]]

ShiftIndex(wi) == [k \in DOMAIN wi |-> wi[k] + INDEX_FROM]

\* word_to_index["<PAD>"] = 0; ["<START>"] = 1; ["<UNK>"] = 2
\* The padding and unknown-word ids exchanged.
AddSpecial_unknown_zero(d) ==
    [k \in (DOMAIN d) \cup Special |->
        IF k = "<PAD>" THEN 2
        ELSE IF k = "<START>" THEN 1
        ELSE IF k = "<UNK>" THEN 0
        ELSE d[k]]

AddSpecial(d) ==
    [k \in (DOMAIN d) \cup Special |->
        IF k = "<PAD>" THEN 0
        ELSE IF k = "<START>" THEN 1
        ELSE IF k = "<UNK>" THEN 2
        ELSE d[k]]

\* The order in which word_to_index.items() yields its keys: the words in the
\* order of the file, then the three keys added afterwards.
ItemsOrder == [i \in 1..VocabSize |-> AllWords[i]] \o << "<PAD>", "<START>", "<UNK>" >>

\* {v: k for k, v in d.items()}: a value that several keys have keeps the
\* last of them.
Invert(d, order) ==
    LET at(v) == {j \in 1..Len(order) : order[j] \in DOMAIN d /\ d[order[j]] = v}
        last(S) == CHOOSE j \in S : \A k \in S : k <= j
    IN  [v \in {d[k] : k \in DOMAIN d} |-> order[last(at(v))]]

\* -------------------------------------------------------- the kernel
None == << >>

Data ==
    [ x_train |-> x_train, x_test |-> x_test,
      word_to_index |-> word_to_index, index_to_word |-> index_to_word,
      X_train |-> X_train, X_test |-> X_test ]

Fresh ==
    /\ ns = << >>
    /\ x_train = None /\ y_train = None /\ x_test = None /\ y_test = None
    /\ word_index = None /\ word_to_index = None /\ index_to_word = None
    /\ X_train = None /\ X_test = None /\ lengths = None
    /\ out = None
    /\ lastCell = "none" /\ err = "ok"
    /\ pc = 1 /\ strict = TRUE
    /\ first = Data

\* A fresh kernel, with the library's files holding any archive of the family.
Init ==
    /\ \E seed \in Seeds, r \in 0..1 :
          imdb = [archive |-> Archive(seed), word_index |-> WordIndexFile(r)]
    /\ Fresh

\* The archives of the runs in which the cells are executed in any order.
SmallSeeds ==
    { [i \in 1..(NumTrain - 1) |-> IF i % 2 = 1 THEN a ELSE VocabSize] :
        a \in {1, NUM_WORDS - index_from} }

InitAny ==
    /\ \E seed \in SmallSeeds :
          imdb = [archive |-> Archive(seed), word_index |-> WordIndexFile(0)]
    /\ Fresh

InOrder(c) == strict /\ pc <= NumCells /\ NotebookOrder[pc] = c

\* What every execution of cell c, ending with `outcome`, records.
Finish(c, outcome) ==
    /\ lastCell' = c
    /\ err' = outcome
    /\ strict' = InOrder(c)
    /\ pc' = IF InOrder(c) THEN pc + 1 ELSE pc
    /\ first' = IF InOrder(c) /\ pc = NumCells THEN Data' ELSE first
    /\ UNCHANGED imdb

loaded == <<x_train, y_train, x_test, y_test>>

dicts == <<word_index, word_to_index, index_to_word>>

padded == <<X_train, X_test>>

\* %load_ext autoreload / %autoreload 2
AutoreloadCell ==
    /\ UNCHANGED <<ns, loaded, dicts, padded, lengths>>
    /\ out' = None
    /\ Finish("autoreload", "ok")

\* The import cell without `import utils`.
ImportNames_without_utils == {"keras", "np", "plt", "os", "pd", "sns"}

ImportNames == {"keras", "np", "plt", "os", "pd", "sns", "utils"}

\* import keras ... import utils / %matplotlib inline
ImportCell ==
    /\ ns' = Bind(ns, ImportNames, "module")
    /\ UNCHANGED <<loaded, dicts, padded, lengths>>
    /\ out' = None
    /\ Finish("imports", "ok")

\* from keras.datasets import imdb; NUM_WORDS = 20000;
\* (x_train, y_train), (x_test, y_test) = imdb.load_data(num_words=NUM_WORDS)
LoadCell ==
    LET d == load_data(imdb.archive, NUM_WORDS) IN
    /\ x_train' = d.x_train /\ y_train' = d.y_train
    /\ x_test' = d.x_test /\ y_test' = d.y_test
    /\ ns' = Bind(Bind(Bind(ns, {"imdb"}, "module"), {"NUM_WORDS"}, "int"),
                  {"x_train", "y_train", "x_test", "y_test"}, "ndarray")
    /\ UNCHANGED <<dicts, padded, lengths>>
    /\ out' = None
    /\ Finish("load", "ok")

\* x_train[:3]
PeekCell ==
    /\ UNCHANGED <<ns, loaded, dicts, padded, lengths>>
    /\ IF "x_train" \in bound
       THEN /\ out' = SubSeq(x_train, 1, Min(PEEK, Len(x_train)))
            /\ Finish("peek", "ok")
       ELSE /\ out' = None
            /\ Finish("peek", "NameError")

\* INDEX_FROM = 3; word_index = imdb.get_word_index(); word_to_index = ...;
\* index_to_word = ...
WordIndexCell ==
    LET ns1 == Bind(ns, {"INDEX_FROM"}, "int") IN
    /\ UNCHANGED <<loaded, padded, lengths>>
    /\ out' = None
    /\ IF "imdb" \in bound
       THEN /\ word_index' = get_word_index(imdb.word_index)
            /\ word_to_index' = AddSpecial(ShiftIndex(word_index'))
            /\ index_to_word' = Invert(word_to_index', ItemsOrder)
            /\ ns' = Bind(ns1, {"word_index", "word_to_index", "index_to_word"}, "dict")
            /\ Finish("wordindex", "ok")
       ELSE /\ UNCHANGED dicts
            /\ ns' = ns1
            /\ Finish("wordindex", "NameError")

\* I_SHOW = 4; ' '.join([index_to_word[w] for w in x_train[I_SHOW]])
\* out holds the words that join() receives, in order.
DecodeCell ==
    /\ ns' = Bind(ns, {"I_SHOW"}, "int")
    /\ UNCHANGED <<loaded, dicts, padded, lengths>>
    /\ IF "x_train" \notin bound
       THEN out' = None /\ Finish("decode", "NameError")
       ELSE IF I_SHOW + 1 > Len(x_train)
       THEN out' = None /\ Finish("decode", "IndexError")
       ELSE LET s == x_train[I_SHOW + 1] IN
            IF Len(s) > 0 /\ "index_to_word" \notin bound
            THEN out' = None /\ Finish("decode", "NameError")
            ELSE IF \E j \in 1..Len(s) : s[j] \notin DOMAIN index_to_word
            THEN out' = None /\ Finish("decode", "KeyError")
            ELSE /\ out' = [j \in 1..Len(s) |-> index_to_word[s[j]]]
                 /\ Finish("decode", "ok")

\* from keras.preprocessing import sequence; MAXLEN = 80;
\* X_train = sequence.pad_sequences(x_train, maxlen=MAXLEN); X_test = ...
PadCell ==
    LET ns1 == Bind(Bind(ns, {"sequence"}, "module"), {"MAXLEN"}, "int") IN
    /\ UNCHANGED <<y_train, y_test, dicts, lengths>>
    /\ out' = None
    /\ IF "x_train" \notin bound
       THEN /\ UNCHANGED <<x_train, x_test, padded>>
            /\ ns' = ns1
            /\ Finish("pad", "NameError")
       ELSE /\ X_train' = pad_sequences(x_train, MAXLEN)
            /\ x_train' = ArgAfterPad(x_train, MAXLEN)
            /\ X_test' = pad_sequences(x_test, MAXLEN)
            /\ x_test' = ArgAfterPad(x_test, MAXLEN)
            /\ ns' = Bind(ns1, {"X_train", "X_test"}, "ndarray")
            /\ Finish("pad", "ok")

\* lengths = [len(s) for s in x_train]; fig, ax = plt.subplots(...);
\* sns.kdeplot(lengths, ...); ax.plot(...); ...; ax.legend([...])
PlotCell ==
    /\ UNCHANGED <<loaded, dicts, padded>>
    /\ IF "x_train" \notin bound
       THEN /\ UNCHANGED <<ns, lengths>>
            /\ out' = None
            /\ Finish("plot", "NameError")
       ELSE /\ lengths' = [i \in 1..Len(x_train) |-> Len(x_train[i])]
            /\ IF "plt" \in bound /\ "sns" \in bound
               THEN /\ ns' = Bind(Bind(ns, {"lengths"}, "list"), {"fig", "ax"}, "figure")
                    /\ out' = << "Legend" >>
                    /\ Finish("plot", "ok")
               ELSE /\ ns' = Bind(ns, {"lengths"}, "list")
                    /\ out' = None
                    /\ Finish("plot", "NameError")

\* print('Size of X_train:', X_train.shape); X_train[3, :]
ShowCell ==
    /\ UNCHANGED <<ns, loaded, dicts, padded, lengths>>
    /\ IF "X_train" \notin bound
       THEN out' = None /\ Finish("show", "NameError")
       ELSE IF SHOW_ROW + 1 > Len(X_train)
       THEN out' = None /\ Finish("show", "IndexError")
       ELSE out' = X_train[SHOW_ROW + 1] /\ Finish("show", "ok")

\* utils.one_hot_encoding(), utils.one_hot_document(), utils.embedding_encoding(),
\* utils.embedding_document(): each shows a table and binds nothing.
UtilsCell(c) ==
    /\ UNCHANGED <<ns, loaded, dicts, padded, lengths>>
    /\ out' = IF "utils" \in bound THEN << "table" >> ELSE None
    /\ Finish(c, IF "utils" \in bound THEN "ok" ELSE "NameError")

\* The model cell without the import of LSTM.
ModelNames_without_LSTM ==
    {"EarlyStopping", "ModelCheckpoint", "Sequential", "Dense", "Embedding"}

ModelNames ==
    {"EarlyStopping", "ModelCheckpoint", "Sequential", "Dense", "Embedding", "LSTM"}

\* from keras.callbacks import EarlyStopping, ModelCheckpoint;
\* from keras.models import Sequential; from keras.layers import Dense, Embedding, LSTM
ModelCell ==
    /\ ns' = Bind(ns, ModelNames, "class")
    /\ UNCHANGED <<loaded, dicts, padded, lengths>>
    /\ out' = None
    /\ Finish("model", "ok")

\* The four cells left empty under the follow-up exercises.
EmptyCell(c) ==
    /\ UNCHANGED <<ns, loaded, dicts, padded, lengths>>
    /\ out' = None
    /\ Finish(c, "ok")

\* ------------------------------------------------------ the specifications
\* Any cell, at any time.
NextAny ==
    \/ AutoreloadCell
    \/ ImportCell
    \/ LoadCell
    \/ PeekCell
    \/ WordIndexCell
    \/ DecodeCell
    \/ PadCell
    \/ PlotCell
    \/ ShowCell
    \/ \E c \in UtilsCells : UtilsCell(c)
    \/ ModelCell
    \/ \E c \in EmptyCells : EmptyCell(c)

SpecAnyOrder == InitAny /\ [][NextAny]_vars

\* Run All from the fresh kernel (it stops at a cell that raises), and once
\* that pass is complete any cell again, in any order.
Turn(c) ==
    \/ pc > NumCells
    \/ pc <= NumCells /\ NotebookOrder[pc] = c /\ err = "ok"

Next ==
    \/ Turn("autoreload") /\ AutoreloadCell
    \/ Turn("imports") /\ ImportCell
    \/ Turn("load") /\ LoadCell
    \/ Turn("peek") /\ PeekCell
    \/ Turn("wordindex") /\ WordIndexCell
    \/ Turn("decode") /\ DecodeCell
    \/ Turn("pad") /\ PadCell
    \/ Turn("plot") /\ PlotCell
    \/ Turn("show") /\ ShowCell
    \/ \E c \in UtilsCells : Turn(c) /\ UtilsCell(c)
    \/ Turn("model") /\ ModelCell
    \/ \E c \in EmptyCells : Turn(c) /\ EmptyCell(c)

Spec == Init /\ [][Next]_vars

\* ---------------------------------------------------------------- claims
Tokens(xs) == UNION { {xs[i][j] : j \in 1..Len(xs[i])} : i \in 1..Len(xs) }

\* row is (MAXLEN - m) pad values followed by m consecutive entries of review,
\* m the smaller of MAXLEN and the review's length.
MadeFrom(row, review) ==
    LET m == Min(Len(review), MAXLEN) IN
    /\ \A j \in 1..(Len(row) - m) : row[j] = pad_value
    /\ \E off \in 0..(Len(review) - m) :
          \A j \in 1..m : row[Len(row) - m + j] = review[off + j]

Rectangular(X, x) ==
    /\ Len(X) = Len(x)
    /\ \A i \in 1..Len(X) : Len(X[i]) = MAXLEN /\ MadeFrom(X[i], x[i])

\* C1: once the padding cell has run, X_train and X_test have one row per
\* review of x_train and x_test, in the order of the reviews, and every row has
\* exactly MAXLEN entries, whatever the lengths of the reviews.
C1_Rectangular ==
    "X_train" \in bound => Rectangular(X_train, x_train) /\ Rectangular(X_test, x_test)

C1_Witness ==
    /\ "X_train" \in bound
    /\ \E i \in 1..Len(x_train) : Len(x_train[i]) < MAXLEN
    /\ \E i \in 1..Len(x_train) : Len(x_train[i]) > MAXLEN

\* C2: the row of every review longer than MAXLEN tokens is the review's first
\* MAXLEN tokens, in order.
C2_FirstTokensKept ==
    "X_train" \in bound =>
        \A i \in 1..Len(x_train) :
            Len(x_train[i]) > MAXLEN => X_train[i] = SubSeq(x_train[i], 1, MAXLEN)

\* C3: word_to_index maps "<PAD>" to 0, "<START>" to 1, "<UNK>" to 2 and every
\* word of the library's index to its index plus INDEX_FROM; no word of the
\* library gets an id in {0, 1, 2}.
C3_ReservedLayered ==
    "word_to_index" \in bound =>
        /\ word_to_index["<PAD>"] = 0
        /\ word_to_index["<START>"] = 1
        /\ word_to_index["<UNK>"] = 2
        /\ \A w \in DOMAIN imdb.word_index :
              /\ word_to_index[w] = imdb.word_index[w] + INDEX_FROM
              /\ word_to_index[w] \notin {0, 1, 2}

C3_Witness ==
    /\ "word_to_index" \in bound
    /\ \E w \in DOMAIN imdb.word_index :
          imdb.word_index[w] = 1 /\ word_to_index[w] = INDEX_FROM + 1

\* The positions of the archive's training reviews whose word is outside the
\* NUM_WORDS most frequent.
RareAt ==
    { <<i, j>> \in (1..NumTrain) \X (1..NumTrain) :
        j <= Len(imdb.archive.x_train[i]) /\ imdb.archive.x_train[i][j] > NUM_WORDS }

C5_BelowNumWords ==
    /\ "x_train" \in bound =>
          \A t \in Tokens(x_train) \cup Tokens(x_test) : t < NUM_WORDS
    /\ "X_train" \in bound =>
          \A t \in Tokens(X_train) \cup Tokens(X_test) : t \in 0..(NUM_WORDS - 1)

C5_Witness ==
    /\ "X_train" \in bound
    /\ \E i \in 1..NumTrain : \E j \in 1..Len(imdb.archive.x_train[i]) :
          imdb.archive.x_train[i][j] + index_from >= NUM_WORDS
    /\ \E i \in 1..NumTest : \E j \in 1..Len(imdb.archive.x_test[i]) :
          imdb.archive.x_test[i][j] + index_from >= NUM_WORDS

\* C6: the padding cell leaves x_train and x_test as they were, so the lengths
\* the plotting cell computes are those of the reviews as loaded (the
\* archive's review and its start marker), not MAXLEN; the decode cell leaves
\* x_train, word_to_index and index_to_word as they were.
C6_Step ==
    /\ lastCell' = "pad" => x_train' = x_train /\ x_test' = x_test
    /\ lastCell' = "decode" =>
          /\ x_train' = x_train
          /\ word_to_index' = word_to_index
          /\ index_to_word' = index_to_word
    /\ (lastCell' = "plot" /\ err' = "ok") =>
          lengths' = [i \in 1..NumTrain |-> Len(imdb.archive.x_train[i]) + 1]

C6_Frame == [][C6_Step]_vars

C6_Witness ==
    /\ lastCell = "plot" /\ err = "ok"
    /\ "X_train" \in bound
    /\ \E i \in 1..Len(lengths) : lengths[i] > MAXLEN
    /\ \E i \in 1..Len(lengths) : lengths[i] < MAXLEN

\* The notebook-level names the cells read.
NamesRead ==
    { "x_train", "x_test", "imdb", "word_index", "word_to_index", "index_to_word",
      "INDEX_FROM", "NUM_WORDS", "MAXLEN", "X_train", "sequence", "plt", "sns",
      "utils" }

\* C7: while the cells are executed once each in document order from the fresh
\* kernel no cell raises NameError, and after the last one every name the cells
\* read is bound; the decode cell executed while x_train or index_to_word is
\* unbound, and the padding cell executed while x_train is unbound, end in
\* NameError.
C7_SequentialSuffices ==
    /\ strict => err # "NameError"
    /\ (strict /\ pc > NumCells) => NamesRead \subseteq bound
    /\ (lastCell = "decode" /\ ~({"x_train", "index_to_word"} \subseteq bound))
          => err = "NameError"
    /\ (lastCell = "pad" /\ "x_train" \notin bound) => err = "NameError"

C7_Witness ==
    /\ strict /\ pc > NumCells
    /\ lastCell = "transfer" /\ err = "ok"

\* The out-of-order case of C7 happens: the decode cell has raised NameError.
C7_DecodeTooEarly ==
    lastCell = "decode" /\ err = "NameError" /\ "index_to_word" \notin bound

InstanceKinds == {"model", "layer"}

\* C8 as stated: after every code cell has been executed in order the kernel
\* holds a sequential model of three layers.
C8_ModelAssembled ==
    pc > NumCells => \E n \in bound : ns[n] \in InstanceKinds

\* C8 as amended: after every code cell has been executed in order the kernel
\* holds the classes Sequential, Embedding, LSTM and Dense (and the two
\* callback classes), imported by the model cell, and no name is bound to a
\* model or to a layer.
C8_OnlyImported ==
    pc > NumCells =>
        /\ \A n \in {"Sequential", "Embedding", "LSTM", "Dense",
                     "EarlyStopping", "ModelCheckpoint"} :
              n \in bound /\ ns[n] = "class"
        /\ \A n \in bound : ns[n] \notin InstanceKinds

C8_Witness ==
    /\ pc > NumCells /\ strict
    /\ "LSTM" \in bound /\ "X_train" \in bound

\* C9: every id that can occur in x_train (1, 2, INDEX_FROM+1..NUM_WORDS-1) and
\* the padding id 0 is a key of index_to_word; so are the tokens that do occur
\* in x_train and the entries of X_train; the decode cell never ends in
\* KeyError; 3 is the only id below NUM_WORDS without an entry, and it occurs
\* in no review.
C9_DecodingTotal ==
    "index_to_word" \in bound =>
        /\ ({0, 1, 2} \cup ((INDEX_FROM + 1)..(NUM_WORDS - 1))) \subseteq DOMAIN index_to_word
        /\ {id \in 0..(NUM_WORDS - 1) : id \notin DOMAIN index_to_word} = {3}
        /\ "x_train" \in bound =>
              /\ Tokens(x_train) \subseteq DOMAIN index_to_word
              /\ Tokens(x_train) \subseteq
                    ({1, 2} \cup ((INDEX_FROM + 1)..(NUM_WORDS - 1)))
        /\ "X_train" \in bound => Tokens(X_train) \subseteq DOMAIN index_to_word
        /\ lastCell = "decode" => err # "KeyError"

C9_Witness ==
    /\ lastCell = "decode" /\ err = "ok"
    /\ "X_train" \in bound
    /\ \E j \in 1..Len(out) : out[j] = "<START>"
    /\ \E j \in 1..Len(out) : out[j] = "<UNK>"
    /\ \E j \in 1..Len(out) : out[j] \in Words
    /\ 0 \in Tokens(X_train)

\* C10: after the first complete pass, whatever cells are executed again,
\* x_train, x_test, word_to_index, index_to_word, X_train and X_test keep the
\* values they had when the pass ended.
C10_RerunIdempotent ==
    pc > NumCells => Data = first

\* After the pass, the word-index cell has been executed again.
C10_Witness ==
    /\ pc > NumCells /\ ~strict
    /\ lastCell = "wordindex"
    /\ Data = first /\ first.X_train # None

====
